---- MODULE Spec2Model ----
(***************************************************************************)
(* Model of NostraAlphaStateComputation                                    *)
(* (src/data_handler/handlers/loan_states/nostra_alpha/run.py):            *)
(* the ingestion loop run(), the page fetch get_data() and the per-page    *)
(* ledger replay process_data().  The event source, the sink, the base     *)
(* class and NostraAlphaState live outside run.py; they are modelled from  *)
(* the written specification.                                              *)
(***************************************************************************)
EXTENDS Integers, Sequences, FiniteSets, TLC

(* ---------------- bounds of the model ---------------- *)
\* number of configured source addresses (PROTOCOL_ADDRESSES)
NumAddresses == 2
\* number of events the event source holds in all
MaxEvents == 2
\* largest number of events in one page
MaxPageLen == 2

(* ---------------- program constants ---------------- *)
\* run.py:67
max_retries == 5
\* window size of the base class
PAGINATION_SIZE == 1000
\* value of self.last_block when run() is entered
START_BLOCK == 0

(* ---------------- events and the ledger ---------------- *)
\* NostraAlphaState.EVENTS_METHODS_MAPPING: type tag -> mutation method
EVENTS_METHODS_MAPPING ==
    ("Deposit" :> "process_deposit_event") @@ ("Withdraw" :> "process_withdraw_event")

\* payloads the event source can deliver (block number is stamped by the fetch)
EventTemplates ==
    { [key_name |-> "Deposit",  user |-> "a", amount |-> 2, has_amount |-> TRUE],
      [key_name |-> "Withdraw", user |-> "a", amount |-> 1, has_amount |-> TRUE],
      [key_name |-> "Deposit",  user |-> "b", amount |-> 1, has_amount |-> TRUE],
      [key_name |-> "Transfer", user |-> "a", amount |-> 1, has_amount |-> TRUE],
      [key_name |-> "Deposit",  user |-> "a", amount |-> 0, has_amount |-> FALSE] }

\* a payload with its block number
Stamp(e, block) ==
    [key_name |-> e.key_name, user |-> e.user, amount |-> e.amount,
     has_amount |-> e.has_amount, block_number |-> block]

\* the event records the source can deliver for a window that starts at block
EventsAt(block) == { Stamp(e, block) : e \in EventTemplates }

\* the pages the source can answer with: at most MaxPageLen events, and no
\* more than it still holds
PagesAt(block, left) ==
    UNION { [1..n -> EventsAt(block)] :
              n \in 0..(IF left < MaxPageLen THEN left ELSE MaxPageLen) }

\* position of user's record in loan_entities (0 when absent)
IndexOf(entities, user) ==
    IF \E i \in 1..Len(entities) : entities[i].user = user
    THEN CHOOSE i \in 1..Len(entities) : entities[i].user = user
    ELSE 0

\* loan_entities with user's record present (created zero-valued on first reference)
Touch(entities, user) ==
    IF IndexOf(entities, user) = 0
    THEN Append(entities, [user |-> user, collateral |-> 0, last_block |-> 0])
    ELSE entities

\* the new collateral of one record under one mutation kind
NewCollateral(method_name, old, amount) ==
    IF method_name = "process_deposit_event" THEN old + amount
    ELSE IF old >= amount THEN old - amount ELSE 0

\* one mutation: touches only the record addressed by the event
Mutate(entities, method_name, event) ==
    LET t == Touch(entities, event.user)
        i == IndexOf(t, event.user)
    IN  [t EXCEPT ![i] = [user |-> event.user,
                          collateral |-> NewCollateral(method_name, t[i].collateral, event.amount),
                          last_block |-> event.block_number]]

\* a payload is malformed when a field its mutation needs is missing
Malformed(event) == ~event.has_amount

\* process_event: dispatches one event; a malformed one raises.  dispatched
\* is the list of the events process_event was called with, in call order
process_event(state, method_name, event) ==
    IF ~state.ok THEN state
    ELSE IF Malformed(event)
         THEN [ok |-> FALSE, loan_entities |-> state.loan_entities,
               dispatched |-> Append(state.dispatched, event)]
         ELSE [ok |-> TRUE,
               loan_entities |-> Mutate(state.loan_entities, method_name, event),
               dispatched |-> Append(state.dispatched, event)]

\* NostraAlphaState(): an empty ledger
NostraAlphaState == [ok |-> TRUE, loan_entities |-> <<>>, dispatched |-> <<>>]

\* df[df["key_name"].isin(events_mapping.keys())]
Filtered(data) == SelectSeq(data, LAMBDA e : e.key_name \in DOMAIN EVENTS_METHODS_MAPPING)

RECURSIVE ReplayReversed(_, _)
\* variant of the for loop: the rows are taken from the last to the first
ReplayReversed(state, rows) ==
    IF rows = <<>> THEN state
    ELSE LET row == rows[Len(rows)]
             method_name == EVENTS_METHODS_MAPPING[row.key_name]
         IN  CHOOSE final \in
                 { ReplayReversed(next, SubSeq(rows, 1, Len(rows) - 1)) :
                       next \in { process_event(state, method_name, row) } } : TRUE

RECURSIVE Replay(_, _)
\* the for loop of process_data over the filtered rows, in order; the state
\* after each event is bound as a value before the next event is applied
Replay(state, rows) ==
    IF rows = <<>> THEN state
    ELSE LET row == Head(rows)
             method_name == EVENTS_METHODS_MAPPING[row.key_name]
         IN  CHOOSE final \in
                 { Replay(next, Tail(rows)) :
                       next \in { process_event(state, method_name, row) } } : TRUE

\* get_result_df: one row per record, in the ledger's order
get_result_df(loan_entities) ==
    [i \in 1..Len(loan_entities) |->
        <<loan_entities[i].user, loan_entities[i].collateral, loan_entities[i].last_block>>]

\* process_data(data): replay of one page and projection; ok = FALSE when it raises
process_data(data) ==
    IF data = <<>> THEN [ok |-> FALSE, df |-> <<>>, dispatched |-> <<>>]
    ELSE LET final == Replay(NostraAlphaState, Filtered(data))
         IN  [ok |-> final.ok,
              df |-> IF final.ok THEN get_result_df(final.loan_entities) ELSE <<>>,
              dispatched |-> final.dispatched]

(* ---------------- state of run() ---------------- *)
VARIABLES
    protocol_address,   \* index of the address of the for loop (NumAddresses + 1: loop over)
    last_block,         \* self.last_block, the cursor
    retry,              \* local retry of run()
    data,               \* local data of run(): the page of the last fetch
    processed_data,     \* local processed_data of run()
    pc,                 \* position in run()
    fetches,            \* the requests sent to the event source, with what became of each page
    saved,              \* the snapshots handed to save_data, most recent last
    stream,             \* the events of all pages process_data has replayed, in order
    eventsLeft,         \* events the event source still holds
    dispatched          \* the events the latest process_data call dispatched, in order

vars == <<protocol_address, last_block, retry, data, processed_data, pc,
          fetches, saved, stream, eventsLeft, dispatched>>

\* variant of get_data: the upper bound is taken as the last block of the window
get_dataInclusive(form_address, min_block) ==
    [from_address |-> form_address,
     min_block_number |-> last_block,
     max_block_number |-> min_block + PAGINATION_SIZE - 1]

\* the request get_data sends to api_connector.get_data
get_data(form_address, min_block) ==
    [from_address |-> form_address,
     min_block_number |-> last_block,
     max_block_number |-> min_block + PAGINATION_SIZE]

\* the log with the outcome of the most recent fetch set
Outcome(log, what) == [log EXCEPT ![Len(log)].outcome = what]

Init ==
    /\ protocol_address = 1
    /\ last_block = START_BLOCK
    /\ retry = 0
    /\ data = <<>>
    /\ processed_data = <<>>
    /\ pc = "fetch"
    /\ fetches = <<>>
    /\ saved = <<>>
    /\ stream = <<>>
    /\ eventsLeft = MaxEvents
    /\ dispatched = <<>>

\* run.py:70  data = self.get_data(protocol_address, self.last_block)
Fetch ==
    /\ pc = "fetch"
    /\ data' \in PagesAt(last_block, eventsLeft)
    /\ eventsLeft' = eventsLeft - Len(data')
    /\ fetches' = Append(fetches,
          [request |-> get_data(protocol_address, last_block),
           empty |-> (data' = <<>>),
           outcome |-> "pending"])
    /\ pc' = "branch"
    /\ UNCHANGED <<protocol_address, last_block, retry, processed_data, saved, stream,
                   dispatched>>

\* variant of the if condition: the comparison admits retry = max_retries
CountsAsRetryInclusive(d, r) == d = <<>> /\ r <= max_retries

\* run.py:71  the condition of the if
CountsAsRetry(d, r) == d = <<>> /\ r < max_retries

\* variant of the elif condition: strict comparison
ExhaustedStrict(r) == r > max_retries

\* run.py:75  the condition of the elif
Exhausted(r) == r = max_retries

\* variant of lines 71-74: the empty page is counted but the window is fetched again
CountEmptyStaying ==
    /\ pc = "branch"
    /\ CountsAsRetry(data, retry)
    /\ retry' = retry + 1
    /\ fetches' = Outcome(fetches, "counted")
    /\ pc' = "fetch"
    /\ UNCHANGED <<protocol_address, last_block, data, processed_data, saved, stream,
                   eventsLeft, dispatched>>

\* run.py:71-74  an empty page is counted and the window skipped
CountEmpty ==
    /\ pc = "branch"
    /\ CountsAsRetry(data, retry)
    /\ last_block' = last_block + PAGINATION_SIZE
    /\ retry' = retry + 1
    /\ fetches' = Outcome(fetches, "counted")
    /\ pc' = "fetch"
    /\ UNCHANGED <<protocol_address, data, processed_data, saved, stream, eventsLeft, dispatched>>

\* variant of the for loop: the address after the exhausted one is passed over
BreakSkipping ==
    /\ pc = "branch"
    /\ ~CountsAsRetry(data, retry)
    /\ Exhausted(retry)
    /\ protocol_address' = protocol_address + 2
    /\ fetches' = Outcome(fetches, "discarded")
    /\ pc' = IF protocol_address + 2 > NumAddresses THEN "done" ELSE "fetch"
    /\ UNCHANGED <<last_block, retry, data, processed_data, saved, stream, eventsLeft, dispatched>>

\* run.py:75-76 and 68  break: the for loop takes the next address, or run() returns
Break ==
    /\ pc = "branch"
    /\ ~CountsAsRetry(data, retry)
    /\ Exhausted(retry)
    /\ protocol_address' = protocol_address + 1
    /\ fetches' = Outcome(fetches, "discarded")
    /\ pc' = IF protocol_address = NumAddresses THEN "done" ELSE "fetch"
    /\ UNCHANGED <<last_block, retry, data, processed_data, saved, stream, eventsLeft, dispatched>>

\* variant of line 78: a failed dispatch is swallowed and the loop goes on to save
ProcessPageSwallowing ==
    /\ pc = "branch"
    /\ ~CountsAsRetry(data, retry)
    /\ ~Exhausted(retry)
    /\ LET result == process_data(data)
       IN  /\ processed_data' = result.df
           /\ stream' = stream \o data
           /\ pc' = "save"
           /\ fetches' = IF result.ok THEN fetches ELSE Outcome(fetches, "dispatch_failed")
    /\ dispatched' = process_data(data).dispatched
    /\ UNCHANGED <<protocol_address, last_block, retry, data, saved, eventsLeft>>

\* run.py:78  processed_data = self.process_data(data); an exception leaves run()
ProcessPage ==
    /\ pc = "branch"
    /\ ~CountsAsRetry(data, retry)
    /\ ~Exhausted(retry)
    /\ LET result == process_data(data)
       IN  IF result.ok
           THEN /\ processed_data' = result.df
                /\ stream' = stream \o data
                /\ pc' = "save"
                /\ UNCHANGED fetches
           ELSE /\ pc' = "aborted"
                /\ fetches' = Outcome(fetches, "dispatch_failed")
                /\ UNCHANGED <<processed_data, stream>>
    /\ dispatched' = process_data(data).dispatched
    /\ UNCHANGED <<protocol_address, last_block, retry, data, saved, eventsLeft>>

\* variant of line 80: the cursor advance depends on the number of events of the page
SaveDataAdaptive ==
    /\ pc = "save"
    /\ saved' = Append(saved, processed_data)
    /\ last_block' = last_block + Len(data) * PAGINATION_SIZE
    /\ fetches' = Outcome(fetches, "saved")
    /\ pc' = "fetch"
    /\ UNCHANGED <<protocol_address, retry, data, processed_data, stream, eventsLeft, dispatched>>

\* run.py:79-80  self.save_data(processed_data); self.last_block += PAGINATION_SIZE
SaveData ==
    /\ pc = "save"
    /\ saved' = Append(saved, processed_data)
    /\ last_block' = last_block + PAGINATION_SIZE
    /\ fetches' = Outcome(fetches, "saved")
    /\ pc' = "fetch"
    /\ UNCHANGED <<protocol_address, retry, data, processed_data, stream, eventsLeft, dispatched>>

\* variant of lines 79-80: the cursor is advanced before save_data is called
SaveFailsAfterAdvance ==
    /\ pc = "save"
    /\ pc' = "aborted"
    /\ last_block' = last_block + PAGINATION_SIZE
    /\ fetches' = Outcome(fetches, "sink_failed")
    /\ UNCHANGED <<protocol_address, retry, data, processed_data, saved, stream, eventsLeft, dispatched>>

\* run.py:79  save_data raises (the sink rejects the write); the exception leaves run()
SaveFails ==
    /\ pc = "save"
    /\ pc' = "aborted"
    /\ fetches' = Outcome(fetches, "sink_failed")
    /\ UNCHANGED <<protocol_address, last_block, retry, data, processed_data,
                   saved, stream, eventsLeft, dispatched>>

\* the event source runs dry: every later request returns an empty page
SourceDries ==
    /\ eventsLeft > 0
    /\ pc \in {"fetch", "branch", "save"}
    /\ eventsLeft' = 0
    /\ UNCHANGED <<protocol_address, last_block, retry, data, processed_data, pc,
                   fetches, saved, stream, dispatched>>

Next ==
    \/ Fetch
    \/ CountEmpty
    \/ Break
    \/ ProcessPage
    \/ SaveData
    \/ SaveFails
    \/ SourceDries

Spec == Init /\ [][Next]_vars

\* run() is a single thread that is always scheduled; the source is not obliged to run dry
RunStep == Fetch \/ CountEmpty \/ Break \/ ProcessPage \/ SaveData \/ SaveFails

FairSpec == Init /\ [][Next]_vars /\ WF_vars(RunStep)

TypeOK ==
    /\ protocol_address \in 1..(NumAddresses + 1)
    /\ retry \in 0..max_retries
    /\ pc \in {"fetch", "branch", "save", "done", "aborted"}
    /\ eventsLeft \in 0..MaxEvents

(* ---------------- vocabulary of the properties ---------------- *)
\* the positions in the log of the requests sent for address i
FetchesFor(i) == { k \in 1..Len(fetches) : fetches[k].request.from_address = i }

\* the event source has answered every request so far with an empty page
AllEmpty == \A k \in 1..Len(fetches) : fetches[k].empty

\* the for loop has left address i
LeftAddress(i) == protocol_address > i

\* the first request of the log for its address
IsFirstForAddress(k) ==
    \A j \in 1..(k - 1) : fetches[j].request.from_address # fetches[k].request.from_address

\* run() is between two iterations of the while loop, or has returned
AtLoopTop == pc \in {"fetch", "done"}

C2_PageBoundaryInvariance ==
    (pc \in {"fetch", "branch", "done"} /\ saved # <<>>) =>
        saved[Len(saved)] = process_data(stream).df

(* ---------------- C3 ---------------- *)
\* C3: every non-empty page a fetch returned has been processed and its
\* snapshot handed to the sink by the time run() fetches again or returns.
C3_NonEmptyPageProcessed ==
    AtLoopTop =>
        \A k \in 1..Len(fetches) : ~fetches[k].empty => fetches[k].outcome = "saved"

(* ---------------- C4 ---------------- *)
\* C4: the retry counter is 0 after every non-empty page that was processed
\* and persisted, so that empty pages before it do not count any more.
C4_RetryResetAfterPage ==
    [][Len(saved') = Len(saved) + 1 => retry' = 0]_vars

(* ---------------- C5 ---------------- *)
\* C5: the first fetch for every address starts at the starting block.
C5_FreshCursorPerAddress ==
    \A k \in 1..Len(fetches) :
        IsFirstForAddress(k) => fetches[k].request.min_block_number = START_BLOCK

(* ---------------- C6 ---------------- *)
\* C6: the retry counter is 0 when the ingestion of an address begins.
C6_FreshRetryPerAddress ==
    (pc = "fetch" /\ protocol_address <= NumAddresses
        /\ FetchesFor(protocol_address) = {}) => retry = 0

(* ---------------- C7 ---------------- *)
\* C7: cursor monotonicity: every step leaves the cursor alone or raises it by
\* exactly the window; a counted empty page and a persisted non-empty page
\* both raise it by the window, whatever the number of events in the page.
C7_CursorMonotonic ==
    [][ /\ last_block' = last_block \/ last_block' = last_block + PAGINATION_SIZE
        /\ retry' # retry => last_block' = last_block + PAGINATION_SIZE
        /\ Len(saved') # Len(saved) => last_block' = last_block + PAGINATION_SIZE
      ]_vars

C7_Witness ==
    /\ retry >= 1
    /\ \E k \in 1..Len(fetches) : fetches[k].outcome = "saved" /\ Len(data) = MaxPageLen
    /\ \E k \in 1..Len(fetches) : fetches[k].outcome = "counted"
    /\ last_block >= START_BLOCK + 2 * PAGINATION_SIZE

(* ---------------- C8 ---------------- *)
\* a non-empty page none of whose events has a registered type tag
OnlyUnknownTags(d) == d # <<>> /\ Filtered(d) = <<>>

\* C8: a page of unknown event types only raises no error and mutates nothing;
\* the loop persists the snapshot (of the untouched, empty ledger), advances
\* the cursor past the page and continues.
C8_UnknownTagsNoOp ==
    (AtLoopTop /\ OnlyUnknownTags(data)) =>
        /\ fetches[Len(fetches)].outcome = "saved"
        /\ saved # <<>> /\ saved[Len(saved)] = <<>>
        /\ last_block = fetches[Len(fetches)].request.min_block_number + PAGINATION_SIZE

(* ---------------- C9 ---------------- *)
\* every configured address has been sent at least one request
AllAddressesVisited == \A i \in 1..NumAddresses : FetchesFor(i) # {}

\* C9: once the event source has run dry, run() returns, having visited every
\* configured address.
C9_Termination ==
    (eventsLeft = 0 /\ pc = "fetch") ~> (pc = "done" /\ AllAddressesVisited)

C9_Witness ==
    /\ pc = "done"
    /\ eventsLeft = 0
    /\ AllAddressesVisited
    /\ saved # <<>>

(* ---------------- C10 ---------------- *)
\* C10: a page whose dispatch failed is the last page fetched: run() has
\* aborted, no snapshot of that page reached the sink, and nothing is fetched
\* or retried afterwards.
C10_FatalDispatchFailure ==
    \A k \in 1..Len(fetches) :
        fetches[k].outcome = "dispatch_failed" =>
            /\ k = Len(fetches)
            /\ pc = "aborted"
            /\ Len(saved) = Cardinality({ j \in 1..Len(fetches) : fetches[j].outcome = "saved" })
            /\ ~ENABLED Next

C10_Witness ==
    /\ pc = "aborted"
    /\ fetches # <<>>
    /\ fetches[Len(fetches)].outcome = "dispatch_failed"
    /\ saved # <<>>
    /\ protocol_address = 1

(* ---------------- C11 ---------------- *)
\* the positions in the log of the pages whose snapshot reached the sink
SavedFetches == { k \in 1..Len(fetches) : fetches[k].outcome = "saved" }

\* the cursor as the last persisted page left it (the starting block when none was)
CursorAfterLastSaved ==
    IF SavedFetches = {} THEN START_BLOCK
    ELSE LET k == CHOOSE m \in SavedFetches : \A j \in SavedFetches : j <= m
         IN  fetches[k].request.min_block_number + PAGINATION_SIZE

\* run() was left by an exception of process_data or of save_data
FailedRun ==
    /\ pc = "aborted"
    /\ fetches # <<>>
    /\ fetches[Len(fetches)].outcome \in {"dispatch_failed", "sink_failed"}

\* C11 (as stated): after a failed run the cursor has the value it had after
\* the last successfully persisted page.
C11_CursorAtLastPersistedAsStated ==
    FailedRun => last_block = CursorAfterLastSaved

\* C11 (amended): a run that aborts is a failed run, and after it the cursor is
\* the start of the window of the page that failed: it was advanced for the
\* windows counted as empty and for the pages persisted before, never for the
\* failed page.
C11_CursorOnFatalError ==
    /\ pc = "aborted" => FailedRun
    /\ FailedRun =>
          /\ last_block = fetches[Len(fetches)].request.min_block_number
          /\ last_block = START_BLOCK + PAGINATION_SIZE
                * Cardinality({ k \in 1..Len(fetches) :
                                  fetches[k].outcome \in {"saved", "counted"} })

C11_Witness ==
    /\ FailedRun
    /\ fetches[Len(fetches)].outcome = "sink_failed"
    /\ SavedFetches # {}
    /\ last_block > CursorAfterLastSaved

(* ---------------- C12 ---------------- *)
\* the requests are sent address by address, in the configured order: the
\* address of a request is the current one, it never goes back, and it moves
\* on, by one, only after the break that ends the previous address
AddressesInOrder ==
    /\ \A k \in 1..Len(fetches) :
          fetches[k].request.from_address \in 1..NumAddresses
    /\ fetches # <<>> /\ pc # "done" /\ pc # "fetch" =>
          fetches[Len(fetches)].request.from_address = protocol_address
    /\ fetches # <<>> => fetches[1].request.from_address = 1
    /\ \A k \in 1..(Len(fetches) - 1) :
          \/ /\ fetches[k + 1].request.from_address = fetches[k].request.from_address
             /\ fetches[k].outcome \in {"counted", "saved"}
          \/ /\ fetches[k + 1].request.from_address = fetches[k].request.from_address + 1
             /\ fetches[k].outcome = "discarded"

\* C12: addresses are ingested strictly in the configured order, one at a
\* time, and once an address is exhausted the run goes on to send at least
\* one request for every remaining address.
C12_SequentialAddresses ==
    /\ []AddressesInOrder
    /\ (protocol_address > 1) ~> (pc = "done" /\ AllAddressesVisited)

C12_Witness ==
    /\ pc = "done"
    /\ AllAddressesVisited
    /\ \E k \in FetchesFor(1) : fetches[k].outcome = "saved"
    /\ \E k \in FetchesFor(NumAddresses) : ~fetches[k].empty

(* ---------------- C13 ---------------- *)
\* the positions in page d of the events with a registered type tag
RegisteredAt(d) == { i \in 1..Len(d) : d[i].key_name \in DOMAIN EVENTS_METHODS_MAPPING }

\* the k-th position, in page order, among the positions I
NthOf(I, k) == CHOOSE i \in I : Cardinality({ j \in I : j < i }) = k - 1

\* log is the list of the first Len(log) registered events of page d, in page order
DispatchedInPageOrder(log, d) ==
    /\ Len(log) <= Cardinality(RegisteredAt(d))
    /\ \A k \in 1..Len(log) : log[k] = d[NthOf(RegisteredAt(d), k)]

\* C13: a page that process_data has replayed had its registered events
\* dispatched in the order of the page, each exactly once and no other event;
\* when the dispatch failed, the events dispatched up to the failure are the
\* first registered events of the page, in the order of the page.
C13_InOrderDispatch ==
    /\ pc = "save" =>
          /\ DispatchedInPageOrder(dispatched, data)
          /\ Len(dispatched) = Cardinality(RegisteredAt(data))
    /\ (pc = "aborted" /\ fetches[Len(fetches)].outcome = "dispatch_failed") =>
          /\ DispatchedInPageOrder(dispatched, data)
          /\ Malformed(dispatched[Len(dispatched)])

C13_Witness ==
    /\ pc = "save"
    /\ Len(data) = 2
    /\ Len(dispatched) = 2
    /\ dispatched[1] # dispatched[2]

(* ---------------- C14 ---------------- *)
\* C14: the windows [min_block_number, max_block_number) of two requests for
\* the same address share no block: each is non-empty and the earlier one
\* ends at or before the start of the later one.
C14_DisjointWindows ==
    \A j, k \in 1..Len(fetches) :
        (j < k /\ fetches[j].request.from_address = fetches[k].request.from_address) =>
            /\ fetches[j].request.min_block_number < fetches[j].request.max_block_number
            /\ fetches[j].request.max_block_number <= fetches[k].request.min_block_number

C14_Witness ==
    \E j, k \in FetchesFor(1) :
        /\ j < k
        /\ fetches[j].outcome = "saved"
        /\ fetches[k].outcome = "saved"

(* ---------------- C15 ---------------- *)
\* C15: the retry counter stays within 0..max_retries; it changes only by
\* counting an empty page, which raises it by one, advances the cursor by the
\* window and happens only, and then always, while it is below max_retries.
C15_RetryBounded ==
    /\ [](retry \in 0..max_retries)
    /\ [][retry' # retry =>
            /\ retry < max_retries
            /\ data = <<>>
            /\ retry' = retry + 1
            /\ last_block' = last_block + PAGINATION_SIZE]_vars
    /\ [][(pc = "branch" /\ pc' # "branch" /\ data = <<>> /\ retry < max_retries) =>
            retry' = retry + 1]_vars

C15_Witness ==
    /\ pc = "fetch"
    /\ retry = max_retries
    /\ fetches # <<>>
    /\ fetches[Len(fetches)].empty
    /\ fetches[Len(fetches)].outcome = "discarded"

(* ---------------- C16 ---------------- *)
\* the positions in the log of the pages process_data was called with
ProcessCalls ==
    { k \in 1..Len(fetches) :
        \/ fetches[k].outcome \in {"saved", "sink_failed", "dispatch_failed"}
        \/ k = Len(fetches) /\ pc = "save" }

\* the positions in the log of the pages save_data was called for
SaveCalls == { k \in 1..Len(fetches) : fetches[k].outcome \in {"saved", "sink_failed"} }

\* process_data and save_data were called for non-empty pages only
OnlyNonEmptyHandled == \A k \in ProcessCalls \cup SaveCalls : ~fetches[k].empty

C17_WindowsFollowCursor ==
    /\ pc = "branch" =>
          /\ fetches[Len(fetches)].request.min_block_number = last_block
          /\ fetches[Len(fetches)].request.max_block_number = last_block + PAGINATION_SIZE
    /\ \A k \in 1..Len(fetches) :
          fetches[k].request.max_block_number
              = fetches[k].request.min_block_number + PAGINATION_SIZE
    /\ \A k \in 1..(Len(fetches) - 1) :
          fetches[k + 1].request.from_address = fetches[k].request.from_address =>
              /\ fetches[k + 1].request.min_block_number
                    = fetches[k].request.min_block_number + PAGINATION_SIZE
              /\ fetches[k + 1].request.min_block_number = fetches[k].request.max_block_number

C17_Witness ==
    /\ pc = "branch"
    /\ Len(fetches) = 3
    /\ fetches[1].outcome = "counted"
    /\ fetches[2].outcome = "saved"
    /\ fetches[3].request.from_address = 1
    /\ last_block = START_BLOCK + 2 * PAGINATION_SIZE

====
